---------------------------- MODULE Spec2Model ----------------------------
(***************************************************************************)
(* The Spanish number-to-words engine of num2words (src/src/lang/es.rs).   *)
(*                                                                         *)
(* A numeral (num_bigfloat::BigFloat) is a record                          *)
(*   [kind : "nan" | "inf" | "fin", neg : BOOLEAN,                          *)
(*    int  : the base-1000 limbs of the integer part of |num|, low-endian, *)
(*           without high zero limbs (<<>> is zero),                       *)
(*    frac : the decimal digits of the fractional part of |num|, without   *)
(*           low zero digits (<<>> is "integral")].                        *)
(* Texts are strings; a word list is a sequence of strings.  A conversion  *)
(* returns [tag |-> "Ok", val |-> text], [tag |-> "Err", val |-> Num2Err]  *)
(* or, when the Rust code would panic, [tag |-> "Panic", val |-> message]. *)
(***************************************************************************)
EXTENDS Integers, Sequences, FiniteSets, TLC

VARIABLES es, call, result

vars == <<es, call, result>>

-----------------------------------------------------------------------------
(* Lexical tables, es.rs:10-175.  Rust indexes from 0, TLA+ from 1.        *)

UNIDADES ==
    <<"", "uno", "dos", "tres", "cuatro", "cinco", "seis", "siete", "ocho", "nueve">>

DIECIS ==
    <<"diez", "once", "doce", "trece", "catorce", "quince", "dieciséis",
      "diecisiete", "dieciocho", "diecinueve">>

DECENAS ==
    <<"", "", "veinte", "treinta", "cuarenta", "cincuenta", "sesenta", "setenta",
      "ochenta", "noventa">>

CENTENAS ==
    <<"", "ciento", "doscientos", "trescientos", "cuatrocientos", "quinientos",
      "seiscientos", "setecientos", "ochocientos", "novecientos">>

MILLAR_SIZE == 22

MILLARES ==
    <<"", "mil", "millones", "billones", "trillones", "cuatrillones", "quintillones",
      "sextillones", "septillones", "octillones", "nonillones", "decillones",
      "undecillones", "duodecillones", "tredecillones", "cuatrodecillones",
      "quindeciollones", "sexdecillones", "septendecillones", "octodecillones",
      "novendecillones", "vigintillones">>

MILLAR ==
    <<"", "mil", "millón", "billón", "trillón", "cuatrillón", "quintillón",
      "sextillón", "septillón", "octillón", "nonillón", "decillón", "undecillón",
      "duodecillón", "tredecillón", "cuatrodecillón", "quindeciollón",
      "sexdecillón", "septendecillón", "octodecillón", "novendecillón",
      "vigintillón">>

ordinal_UNIDADES ==
    <<"", "primer", "segund", "tercer", "cuart", "quint", "sext", "séptim", "octav",
      "noven">>

ordinal_DECENAS ==
    <<"", "", "vigésim", "trigésim", "cuadragésim", "quincuagésim", "sexagésim",
      "septuagésim", "octogésim", "nonagésim">>

ordinal_DIECIS ==
    <<"décim", "undécim", "duodécim", "decimotercer", "decimocuart", "decimoquint",
      "decimosext", "decimoséptim", "decimooctav", "decimonoven">>

ordinal_CENTENAS ==
    <<"", "centésim", "ducentésim", "tricentésim", "cuadringentésim", "quingentésim",
      "sexcentésim", "septingentésim", "octingentésim", "noningentésim">>

ordinal_MILLARES ==
    <<"", "milésim", "millonésim", "billonésim", "trillonésim", "cuatrillonésim",
      "quintillonésim", "sextillonésim", "septillonésim", "octillonésim",
      "nonillonésim", "decillonésim", "undecillonésim", "duodecillonésim",
      "tredecillonésim", "cuatrodecillonésim", "quindeciollonésim",
      "sexdecillonésim", "septendecillonésim", "octodecillonésim",
      "novendecillonésim", "vigintillonésim">>

-----------------------------------------------------------------------------
(* Rust primitives the engine relies on.                                   *)

\* The word a failed bounds check leaves behind: table[idx] panics in Rust.
OutOfBounds == "<index out of bounds>"

\* table[idx] with Rust's bounds check.
Index(table, idx) ==
    IF idx >= 0 /\ idx < Len(table) THEN table[idx + 1] ELSE OutOfBounds

\* format!/String + over parts that may come from a table lookup.
RECURSIVE Concat(_)
Concat(parts) ==
    IF parts = <<>> THEN ""
    ELSE LET rest == Concat(Tail(parts))
         IN  IF Head(parts) = OutOfBounds \/ rest = OutOfBounds THEN OutOfBounds
             ELSE Head(parts) \o rest

Ok(text) == [tag |-> "Ok", val |-> text]
Err(e) == [tag |-> "Err", val |-> e]
Panic(msg) == [tag |-> "Panic", val |-> msg]

\* The ? operator: an Err (or a panic) of r ends the caller, an Ok goes on.
Try(r, Then(_)) == IF r.tag # "Ok" THEN r ELSE Then(r.val)

\* str::ends_with
EndsWith(s, suffix) ==
    Len(s) >= Len(suffix) /\ SubSeq(s, Len(s) - Len(suffix) + 1, Len(s)) = suffix

\* str::starts_with
StartsWith(s, prefix) ==
    Len(s) >= Len(prefix) /\ SubSeq(s, 1, Len(prefix)) = prefix

\* str::contains
Contains(s, pat) ==
    \E k \in 1..(Len(s) - Len(pat) + 1) : SubSeq(s, k, k + Len(pat) - 1) = pat

\* str::replace(pat, to): every non-overlapping match, left to right.
RECURSIVE Replace(_, _, _)
Replace(s, pat, to) ==
    IF Len(s) < Len(pat) THEN s
    ELSE IF SubSeq(s, 1, Len(pat)) = pat
         THEN to \o Replace(SubSeq(s, Len(pat) + 1, Len(s)), pat, to)
         ELSE SubSeq(s, 1, 1) \o Replace(SubSeq(s, 2, Len(s)), pat, to)

\* Vec<String>::join(" ")
RECURSIVE Join(_)
Join(words) ==
    IF words = <<>> THEN ""
    ELSE IF Len(words) = 1 THEN words[1]
         ELSE words[1] \o " " \o Join(Tail(words))

\* Faulty variant: the empty words are kept.
FilterNonEmpty_keeps_all(words) == words

\* .filter(|word| !word.is_empty())
FilterNonEmpty(words) == SelectSeq(words, LAMBDA w : w # "")

-----------------------------------------------------------------------------
(* The numeral: the BigFloat operations the engine calls.                  *)

is_nan(num) == num.kind = "nan"
is_inf(num) == num.kind = "inf"
is_inf_pos(num) == num.kind = "inf" /\ ~num.neg
is_negative(num) == num.neg
is_zero(num) == num.kind = "fin" /\ num.int = <<>> /\ num.frac = <<>>

\* num.frac().is_zero(): NaN and the infinities have no zero fraction.
frac_is_zero(num) == num.kind = "fin" /\ num.frac = <<>>

\* Faulty variant: one fractional digit is dropped, not the whole fraction.
int_drops_one_digit(num) ==
    IF num.kind # "fin" THEN num
    ELSE [kind |-> "fin", neg |-> num.neg /\ (num.int # <<>> \/ Len(num.frac) > 1),
          int |-> num.int, frac |-> IF num.frac = <<>> THEN <<>> ELSE Tail(num.frac)]

\* num.int(): the numeral truncated toward zero.
int(num) ==
    IF num.kind # "fin" THEN num
    ELSE [kind |-> "fin", neg |-> num.neg /\ num.int # <<>>, int |-> num.int,
          frac |-> <<>>]

abs(num) == [num EXCEPT !.neg = FALSE]
inv_sign(num) == [num EXCEPT !.neg = ~num.neg]

\* triplet.into(): a u64 below 1000 as a numeral.
FromTriplet(t) ==
    [kind |-> "fin", neg |-> FALSE, int |-> IF t = 0 THEN <<>> ELSE <<t>>,
     frac |-> <<>>]

Default ==
    [neg_flavour |-> "Prepended", prefer_veinte |-> FALSE, decimal_char |-> "Punto",
     feminine |-> FALSE, plural |-> FALSE]

\* NegativeFlavour::as_str
as_str(flavour) ==
    CASE flavour = "Prepended" -> "menos"
      [] flavour = "Appended" -> "negativo"
      [] flavour = "BelowZero" -> "bajo cero"

\* DecimalChar::to_word
to_word(decimal_char) ==
    CASE decimal_char = "Punto" -> "punto"
      [] decimal_char = "Coma" -> "coma"

\* The loop of split_thousands: push num % 1000, then num = (num / 1000).int().
RECURSIVE split_thousands_loop(_, _)
split_thousands_loop(limbs, thousands) ==
    IF limbs = <<>> THEN thousands
    ELSE split_thousands_loop(Tail(limbs), Append(thousands, Head(limbs)))

split_thousands(num) == split_thousands_loop(num.int, <<>>)

\* Faulty variant: the negative word is pushed last under every flavour.
flavourize_with_negative_always_last(words, flavour) == Append(words, as_str(flavour))

\* Faulty variant: the prepended word is inserted at position 1 instead of 0.
flavourize_with_negative_at_one(words, flavour) ==
    CASE flavour = "Prepended" -> <<Head(words), as_str(flavour)>> \o Tail(words)
      [] flavour = "Appended" -> Append(words, as_str(flavour))
      [] flavour = "BelowZero" -> Append(words, as_str(flavour))

\* es.rs:594-602
flavourize_with_negative(words, flavour) ==
    CASE flavour = "Prepended" -> <<as_str(flavour)>> \o words
      [] flavour = "Appended" -> Append(words, as_str(flavour))
      [] flavour = "BelowZero" -> Append(words, as_str(flavour))

-----------------------------------------------------------------------------
(* int_to_cardinal, es.rs:441-546.                                         *)

\* Faulty variant: the exact hundred takes the generic hundreds word.
hundreds_word_generic(triplet, hundreds) == Index(CENTENAS, hundreds)

\* es.rs:458-464: the hundreds word of a triplet whose hundreds digit is > 0.
hundreds_word(triplet, hundreds) ==
    IF triplet = 100 THEN "cien" ELSE Index(CENTENAS, hundreds)

\* Faulty variant: a triplet of 1 above index 0 never has a unit word.
unit_word_of_never_un(triplet, units, i) ==
    IF triplet = 1 /\ i > 0 THEN "" ELSE Index(UNIDADES, units)

\* Faulty variant: every units digit 1 above index 0 is read "un".
unit_word_of_un_above(triplet, units, i) ==
    IF units = 1 /\ i > 0
    THEN (IF triplet = 1 /\ i % 2 = 1 THEN "" ELSE "un")
    ELSE Index(UNIDADES, units)

\* Faulty variant: the parity test of the index is inverted.
unit_word_of_odd_un(triplet, units, i) ==
    IF triplet = 1 /\ i > 0
    THEN (IF i % 2 = 1 THEN "un" ELSE "")
    ELSE Index(UNIDADES, units)

\* es.rs:467-480: the units word, which depends on the triplet's index.
unit_word_of(triplet, units, i) ==
    IF triplet = 1 /\ i > 0
    THEN (IF i % 2 = 0 THEN "un" ELSE "")
    ELSE Index(UNIDADES, units)

\* es.rs:482-507: the word pushed for the tens and units digits.
tens_word(self, tens, units, i, unit_word) ==
    CASE tens = 0 -> unit_word
      [] tens = 1 -> Index(DIECIS, units)
      [] tens = 2 /\ self.prefer_veinte /\ units # 0 ->
            Concat(<<"veinte y ", IF units = 1 /\ i # 0 THEN "un" ELSE unit_word>>)
      [] tens = 2 /\ ~(self.prefer_veinte /\ units # 0) ->
            (CASE units = 0 -> Index(DECENAS, tens)
               [] units = 1 /\ i # 0 -> "veintiún"
               [] OTHER -> Concat(<<"veinti", unit_word>>))
      [] OTHER ->
            (IF units = 0 THEN Index(DECENAS, tens)
             ELSE Concat(<<Index(DECENAS, tens), " y ", unit_word>>))

\* es.rs:454-508: the words one triplet pushes before its scale name.
triplet_words(self, triplet, i) ==
    LET hundreds == (triplet \div 100) % 10
        tens == (triplet \div 10) % 10
        units == triplet % 10
    IN  (IF hundreds > 0 THEN <<hundreds_word(triplet, hundreds)>> ELSE <<>>)
        \o (IF tens # 0 \/ units # 0
            THEN <<tens_word(self, tens, units, i, unit_word_of(triplet, units, i))>>
            ELSE <<>>)

\* es.rs:521 (and 711): the scale-table index of the triplet at index i.
milliard_index_of(i) == IF i % 2 = 0 THEN i \div 2 + 1 ELSE 1

\* es.rs:523 (and 713): triplets.get(i + 1).copied().unwrap_or(0).
last_triplet_of(triplets, i) ==
    IF i + 2 <= Len(triplets) THEN triplets[i + 2] ELSE 0

\* Faulty variant: the triplet above counts at the thousands indexes too.
has_milliard_any_index(triplet, last_triplet, milliard_index) ==
    triplet # 0 \/ last_triplet # 0

\* Faulty variant: only the triplet itself decides; the one above is not looked at.
has_milliard_own_triplet(triplet, last_triplet, milliard_index) == triplet # 0

\* es.rs:528 (and 716): whether a scale name follows the triplet at index i.
has_milliard(triplet, last_triplet, milliard_index) ==
    triplet # 0 \/ (last_triplet # 0 /\ milliard_index > 1)

\* Faulty variant: the bound check lets one index past the table through.
milliard_overflows_off_by_one(milliard_index) == milliard_index > Len(MILLARES)

\* es.rs:529 (and 717): the scale is beyond the last entry of the table.
milliard_overflows(milliard_index) == milliard_index > Len(MILLARES) - 1

\* Faulty variant: the next-higher triplet is not looked at.
milliard_is_plural_by_value(triplet, last_triplet) == triplet > 1

\* es.rs:533: whether the scale name is the plural one.
milliard_is_plural(triplet, last_triplet) == triplet > 1 \/ last_triplet > 0

\* Faulty variant: the plural name whatever the count.
milliard_word_always_plural(plural, milliard_index) == Index(MILLARES, milliard_index)

\* es.rs:534-537: the scale name pushed.
milliard_word(plural, milliard_index) ==
    IF plural THEN Index(MILLARES, milliard_index) ELSE Index(MILLAR, milliard_index)

\* Vec::push of the words of one iteration, unless a table lookup panicked.
Pushed(words) ==
    IF \E k \in 1..Len(words) : words[k] = OutOfBounds
    THEN Panic(OutOfBounds)
    ELSE [tag |-> "Continue", val |-> words]

\* The next iteration of a loop, unless this one returned or panicked.
Advance(step, Continue(_)) ==
    IF step.tag # "Continue" THEN step ELSE Continue(step.val)

\* es.rs:454-538: one iteration of the loop, for the triplet at index i.
cardinal_step(self, triplets, i) ==
    LET triplet == triplets[i + 1]
        milliard_index == milliard_index_of(i)
        last_triplet == last_triplet_of(triplets, i)
    IN  IF i = 0 \/ ~has_milliard(triplet, last_triplet, milliard_index)
        THEN Pushed(triplet_words(self, triplet, i))
        ELSE IF milliard_overflows(milliard_index)
        THEN Err("CannotConvert")
        ELSE Pushed(Append(triplet_words(self, triplet, i),
                           milliard_word(milliard_is_plural(triplet, last_triplet),
                                         milliard_index)))

\* es.rs:453-539: the loop over the triplets, from the highest index down to 0.
RECURSIVE cardinal_loop(_, _, _, _)
cardinal_loop(self, triplets, i, words) ==
    IF i < 0 THEN Ok(words)
    ELSE Advance(cardinal_step(self, triplets, i),
                 LAMBDA pushed : cardinal_loop(self, triplets, i - 1, words \o pushed))

\* es.rs:540-545: the negative flavour, the filter and the join.
cardinal_text(self, num, words) ==
    Join(FilterNonEmpty(IF is_negative(num)
                        THEN flavourize_with_negative(words, self.neg_flavour)
                        ELSE words))

int_to_cardinal(self, num) ==
    IF ~frac_is_zero(num) \/ is_nan(num) \/ is_inf(num) THEN Err("CannotConvert")
    ELSE IF is_zero(num) THEN Ok("cero")
    ELSE Try(cardinal_loop(self, split_thousands(num), Len(split_thousands(num)) - 1,
                           <<>>),
             LAMBDA words : Ok(cardinal_text(self, num, words)))

\* The digits of the fraction, es.rs:561-568.
RECURSIVE fraction_words(_)
fraction_words(fraction_part) ==
    IF fraction_part = <<>> THEN <<>>
    ELSE LET digit == Head(fraction_part)
         IN  <<IF digit = 0 THEN "cero" ELSE Index(UNIDADES, digit)>>
             \o fraction_words(Tail(fraction_part))

\* es.rs:555-572: the separator, the digits, the negative flavour and the join.
float_text(self, num, positive_int_word) ==
    LET words == <<positive_int_word>>
                 \o (IF num.frac # <<>> THEN <<to_word(self.decimal_char)>> ELSE <<>>)
                 \o fraction_words(num.frac)
    IN  IF \E k \in 1..Len(words) : words[k] = OutOfBounds
        THEN Panic(OutOfBounds)
        ELSE Ok(Join(IF is_negative(num)
                     THEN flavourize_with_negative(words, self.neg_flavour)
                     ELSE words))

\* es.rs:548-573
float_to_cardinal(self, num) ==
    Try(int_to_cardinal(self, int(abs(num))),
        LAMBDA positive_int_word : float_text(self, num, positive_int_word))

\* es.rs:576-591
inf_to_cardinal(self, num) ==
    IF ~is_inf(num) THEN Err("CannotConvert")
    ELSE IF is_inf_pos(num) THEN Ok("infinito")
    ELSE LET word == CASE self.neg_flavour = "Prepended" -> "{} infinito"
                       [] self.neg_flavour = "Appended" -> "infinito {}"
                       [] self.neg_flavour = "BelowZero" -> "menos infinito"
         IN  Ok(Replace(word, "{}", as_str(self.neg_flavour)))

\* es.rs:621-631
to_cardinal(self, num) ==
    IF is_nan(num) THEN Err("CannotConvert")
    ELSE IF is_inf(num) THEN inf_to_cardinal(self, num)
    ELSE IF frac_is_zero(num) THEN int_to_cardinal(self, num)
    ELSE float_to_cardinal(self, num)

-----------------------------------------------------------------------------
(* to_ordinal, es.rs:642-771.                                              *)

\* Faulty variant: the non-integral arm is matched before the negative arm.
ordinal_precondition_float_first(num) ==
    CASE is_nan(num) -> Err("CannotConvert")
      [] ~is_nan(num) /\ is_inf(num) -> Err("InfiniteOrdinal")
      [] ~is_nan(num) /\ ~is_inf(num) /\ ~frac_is_zero(num) -> Err("FloatingOrdinal")
      [] ~is_nan(num) /\ ~is_inf(num) /\ frac_is_zero(num) /\ is_negative(num) ->
            Err("NegativeOrdinal")
      [] OTHER -> Ok("")

\* Faulty variant: the non-integral arm is missing.
ordinal_precondition_no_float_arm(num) ==
    CASE is_nan(num) -> Err("CannotConvert")
      [] ~is_nan(num) /\ is_inf(num) -> Err("InfiniteOrdinal")
      [] ~is_nan(num) /\ ~is_inf(num) /\ is_negative(num) -> Err("NegativeOrdinal")
      [] OTHER -> Ok("")

\* Faulty variant: zero is rejected.
ordinal_precondition_rejects_zero(num) ==
    CASE is_nan(num) \/ is_zero(num) -> Err("CannotConvert")
      [] ~is_nan(num) /\ is_inf(num) -> Err("InfiniteOrdinal")
      [] ~is_nan(num) /\ ~is_inf(num) /\ ~is_zero(num) /\ is_negative(num) ->
            Err("NegativeOrdinal")
      [] ~is_nan(num) /\ ~is_inf(num) /\ ~is_zero(num) /\ ~is_negative(num)
            /\ ~frac_is_zero(num) -> Err("FloatingOrdinal")
      [] OTHER -> Ok("")

\* Faulty variant: the NaN guard is missing.
ordinal_precondition_no_nan_guard(num) ==
    CASE is_inf(num) -> Err("InfiniteOrdinal")
      [] ~is_inf(num) /\ is_negative(num) -> Err("NegativeOrdinal")
      [] ~is_inf(num) /\ ~is_negative(num) /\ ~frac_is_zero(num) ->
            Err("FloatingOrdinal")
      [] OTHER -> Ok("")

\* es.rs:645-651 (and 785-791): the validation shared by the two ordinal registers.
ordinal_precondition(num) ==
    CASE is_nan(num) -> Err("CannotConvert")
      [] ~is_nan(num) /\ is_inf(num) -> Err("InfiniteOrdinal")
      [] ~is_nan(num) /\ ~is_inf(num) /\ is_negative(num) -> Err("NegativeOrdinal")
      [] ~is_nan(num) /\ ~is_inf(num) /\ ~is_negative(num) /\ ~frac_is_zero(num) ->
            Err("FloatingOrdinal")
      [] OTHER -> Ok("")

\* es.rs:654-661
gender(self) ==
    CASE self.plural /\ self.feminine -> "as"
      [] self.plural /\ ~self.feminine -> "os"
      [] ~self.plural /\ self.feminine -> "a"
      [] OTHER -> "o"

\* es.rs:675-682: the closure decenas.
ordinal_decenas(tens, units) ==
    IF units \in 1..9 /\ tens = 2
    THEN LET stem == Index(ordinal_DECENAS, tens)
         IN  IF stem = OutOfBounds THEN stem ELSE Replace(stem, "é", "e")
    ELSE Index(ordinal_DECENAS, tens)

\* es.rs:664-707: the words of the triplet at index 0.
ordinal_units_words(self, triplet) ==
    LET hundreds == (triplet \div 100) % 10
        tens == (triplet \div 10) % 10
        units == triplet % 10
        g == gender(self)
        unit_word == Index(ordinal_UNIDADES, units)
    IN  (IF hundreds > 0
         THEN <<Concat(<<Index(ordinal_CENTENAS, hundreds), g>>)>> ELSE <<>>)
        \o (IF tens # 0 \/ units # 0
            THEN <<CASE tens = 0 -> Concat(<<unit_word, g>>)
                     [] tens = 1 -> Concat(<<Index(ordinal_DIECIS, units), g>>)
                     [] tens = 2 /\ units # 0 ->
                           Concat(<<ordinal_decenas(tens, units), g, unit_word, g>>)
                     [] OTHER ->
                           (IF units = 0
                            THEN Concat(<<ordinal_decenas(tens, units), g>>)
                            ELSE Concat(<<ordinal_decenas(tens, units), g, " ",
                                          unit_word, g>>))>>
            ELSE <<>>)

\* Faulty variant: the thousands triplets are never left to the next scale.
skips_thousand_never(milliard_index, i) == milliard_index = 1 /\ i < 1

\* es.rs:720: a thousands triplet above index 1 is left to the next scale.
skips_thousand(milliard_index, i) == milliard_index = 1 /\ i > 1

\* Faulty variant: the cardinal is followed by a space whatever its value.
cardinal_prefix_spaced(self, triplet) ==
    IF triplet >= 2
    THEN Try(to_cardinal(self, FromTriplet(triplet)), LAMBDA word : Ok(word \o " "))
    ELSE Ok("")

\* es.rs:731-739 (and 744-750): the cardinal prefix of a triplet, a Result.
cardinal_prefix(self, triplet) ==
    IF triplet >= 2
    THEN Try(to_cardinal(self, FromTriplet(triplet)),
             LAMBDA word : Ok(IF triplet >= 10 THEN word \o " " ELSE word))
    ELSE Ok("")

\* es.rs:751-755: the "<cardinal>mil" prefix fused onto an even triplet's word.
thousand_of_milliard(self, milliard_index, i, last_triplet) ==
    CASE milliard_index # 1 /\ i > 1 /\ last_triplet > 0 ->
            Try(cardinal_prefix(self, last_triplet), LAMBDA word : Ok(word \o "mil"))
      [] milliard_index = 1 /\ i > 1 /\ last_triplet > 0 ->
            Panic("Should be dead code")
      [] OTHER -> Ok("")

\* es.rs:756-762: the word of a triplet at an index above 0.
milliard_ordinal_word(self, milliard_index, thousand, triplet_word) ==
    Concat(<<thousand, triplet_word, Index(ordinal_MILLARES, milliard_index),
             gender(self)>>)

\* es.rs:663-763: one iteration of the loop, for the triplet at index i.
ordinal_step(self, triplets, i) ==
    LET triplet == triplets[i + 1]
        milliard_index == milliard_index_of(i)
        last_triplet == last_triplet_of(triplets, i)
    IN  IF i = 0 THEN Pushed(ordinal_units_words(self, triplet))
        ELSE IF ~has_milliard(triplet, last_triplet, milliard_index)
        THEN Pushed(<<>>)
        ELSE IF milliard_overflows(milliard_index) THEN Err("CannotConvert")
        ELSE IF skips_thousand(milliard_index, i) THEN Pushed(<<>>)
        ELSE
          Try(cardinal_prefix(self, triplet),
              LAMBDA triplet_word :
                Try(thousand_of_milliard(self, milliard_index, i, last_triplet),
                    LAMBDA thousand :
                      Pushed(<<milliard_ordinal_word(self, milliard_index, thousand,
                                                     triplet_word)>>)))

\* es.rs:662-764: the loop over the triplets, from the highest index down to 0.
RECURSIVE ordinal_loop(_, _, _, _)
ordinal_loop(self, triplets, i, words) ==
    IF i < 0 THEN Ok(words)
    ELSE Advance(ordinal_step(self, triplets, i),
                 LAMBDA pushed : ordinal_loop(self, triplets, i - 1, words \o pushed))

to_ordinal(self, num) ==
    Try(ordinal_precondition(num),
        LAMBDA checked :
          Try(ordinal_loop(self, split_thousands(int(num)),
                           Len(split_thousands(int(num))) - 1, <<>>),
              LAMBDA words : Ok(Join(FilterNonEmpty(words)))))

-----------------------------------------------------------------------------
(* to_ordinal_num, es.rs:784-796.                                          *)

\* i128::MAX = 2^127 - 1 in base-1000 limbs, low-endian.
I128_MAX ==
    <<727, 105, 884, 715, 303, 687, 731, 231, 469, 460, 183, 141, 170>>

\* a <= b for two limb sequences of the same length.
RECURSIVE LimbsLeq(_, _)
LimbsLeq(a, b) ==
    IF a = <<>> THEN TRUE
    ELSE LET n == Len(a)
         IN  IF a[n] # b[n] THEN a[n] < b[n]
             ELSE LimbsLeq(SubSeq(a, 1, n - 1), SubSeq(b, 1, n - 1))

\* Faulty variant: only the number of triplets is compared with i128::MAX.
fits_i128_by_length(num) == Len(num.int) <= Len(I128_MAX)

\* BigFloat::to_i128 of a non-negative integer: None when it does not fit.
fits_i128(num) ==
    \/ Len(num.int) < Len(I128_MAX)
    \/ Len(num.int) = Len(I128_MAX) /\ LimbsLeq(num.int, I128_MAX)

DigitChar(d) == SubSeq("0123456789", d + 1, d + 1)

\* The decimal digits of a limb: as they are, or padded to three.
LimbDigits(t, padded) ==
    (IF padded \/ t >= 100 THEN DigitChar(t \div 100) ELSE "")
    \o (IF padded \/ t >= 10 THEN DigitChar((t \div 10) % 10) ELSE "")
    \o DigitChar(t % 10)

\* i128::to_string of a non-negative integer.
RECURSIVE limbs_to_string(_)
limbs_to_string(limbs) ==
    IF limbs = <<>> THEN "0"
    ELSE IF Len(limbs) = 1 THEN LimbDigits(limbs[1], FALSE)
    ELSE limbs_to_string(Tail(limbs)) \o LimbDigits(Head(limbs), TRUE)

to_ordinal_num(self, num) ==
    Try(ordinal_precondition(num),
        LAMBDA checked :
          IF ~fits_i128(num) THEN Err("CannotConvert")
          ELSE Ok(limbs_to_string(num.int) \o (IF self.feminine THEN "ª" ELSE "º")))

-----------------------------------------------------------------------------
(* to_year, es.rs:810-832.                                                 *)

\* Faulty variant: the zero arm is matched before the non-integral arm.
year_precondition_zero_first(num) ==
    CASE is_nan(num) -> Err("CannotConvert")
      [] ~is_nan(num) /\ is_inf(num) -> Err("InfiniteYear")
      [] ~is_nan(num) /\ ~is_inf(num) /\ is_zero(int(num)) -> Err("CannotConvert")
      [] ~is_nan(num) /\ ~is_inf(num) /\ ~is_zero(int(num)) /\ ~frac_is_zero(num) ->
            Err("FloatingYear")
      [] OTHER -> Ok("")

\* es.rs:811-817
year_precondition(num) ==
    CASE is_nan(num) -> Err("CannotConvert")
      [] ~is_nan(num) /\ is_inf(num) -> Err("InfiniteYear")
      [] ~is_nan(num) /\ ~is_inf(num) /\ ~frac_is_zero(num) -> Err("FloatingYear")
      [] ~is_nan(num) /\ ~is_inf(num) /\ frac_is_zero(num) /\ is_zero(int(num)) ->
            Err("CannotConvert")
      [] OTHER -> Ok("")

\* es.rs:821-826
year_suffix(num) == IF is_negative(num) THEN " a. C." ELSE ""

\* Faulty variant: the sign of a negative year is not inverted.
year_numeral_keeps_sign(num) == num

\* es.rs:819-826: the numeral handed to int_to_cardinal.
year_numeral(num) == IF is_negative(num) THEN inv_sign(num) ELSE num

to_year(self, num) ==
    Try(year_precondition(num),
        LAMBDA checked :
          Try(int_to_cardinal(self, year_numeral(num)),
              LAMBDA year_word : Ok(year_word \o year_suffix(num))))

-----------------------------------------------------------------------------
(* to_currency, es.rs:856-897.                                             *)

\* es.rs:264-435, for the two currencies the model draws.
currencies(currency, plural_form) ==
    LET dollar == CASE currency = "USD" ->
                          (IF plural_form THEN "dólares estadounidenses"
                           ELSE "dólar estadounidense")
                    [] currency = "MXN" -> "peso{} mexicano{}"
    IN  Replace(dollar, "{}", IF plural_form THEN "s" ELSE "")

\* es.rs:437-439: Currency::default_subunit_string("centavo{}", plural_form).
cents(currency, plural_form) ==
    Replace("centavo{}", "{}", IF plural_form THEN "s" ELSE "")

\* es.rs:857-866
strip_uno_into_un(string) ==
    LET len == Len(string)
    IN  IF EndsWith(string, "iuno") THEN SubSeq(string, 1, len - 3) \o "ún"
        ELSE IF EndsWith(string, "uno") THEN SubSeq(string, 1, len - 1)
        ELSE string

\* Faulty variant: the comparison with one ignores the sign.
differs_from_one_in_size(num) ==
    ~(num.kind = "fin" /\ num.int = <<1>> /\ num.frac = <<>>)

\* num != 1.into()
differs_from_one(num) ==
    ~(num.kind = "fin" /\ ~num.neg /\ num.int = <<1>> /\ num.frac = <<>>)

\* Faulty variant: the subunit is rounded to the nearest hundredth.
cents_of_rounded(num) ==
    LET d1 == IF Len(num.frac) >= 1 THEN num.frac[1] ELSE 0
        d2 == IF Len(num.frac) >= 2 THEN num.frac[2] ELSE 0
        d3 == IF Len(num.frac) >= 3 THEN num.frac[3] ELSE 0
        v == (10 * d1 + d2 + (IF d3 >= 5 THEN 1 ELSE 0)) % 100
    IN  [kind |-> "fin", neg |-> num.neg /\ v # 0,
         int |-> IF v = 0 THEN <<>> ELSE <<v>>, frac |-> <<>>]

\* es.rs:881: num.mul(&hundred).int().rem(&hundred); the remainder keeps the
\* sign of the numeral.
cents_of(num) ==
    LET d1 == IF Len(num.frac) >= 1 THEN num.frac[1] ELSE 0
        d2 == IF Len(num.frac) >= 2 THEN num.frac[2] ELSE 0
        v == 10 * d1 + d2
    IN  [kind |-> "fin", neg |-> num.neg /\ v # 0,
         int |-> IF v = 0 THEN <<>> ELSE <<v>>, frac |-> <<>>]

\* es.rs:869-873
inf_to_currency(self, num, currency) ==
    Try(inf_to_cardinal(self, num),
        LAMBDA inf : Ok(Replace(inf \o "de {}", "{}", currencies(currency, TRUE))))

\* es.rs:874-878
int_to_currency(self, num, currency) ==
    Try(int_to_cardinal(self, num),
        LAMBDA cardinal :
          Ok(strip_uno_into_un(cardinal) \o " "
             \o currencies(currency, differs_from_one(int(num)))))

\* Faulty variant: the arm of the zero integer part is missing.
currency_text_always_con(currency, integral, cents_value, int_words, cent_words) ==
    LET cents_suffix == cents(currency, differs_from_one(cents_value))
    IN  IF is_zero(cents_value) THEN int_words
        ELSE int_words \o " con " \o cent_words \o " " \o cents_suffix

\* es.rs:887-895: the text of a non-integral amount.
currency_text(currency, integral, cents_value, int_words, cent_words) ==
    LET cents_suffix == cents(currency, differs_from_one(cents_value))
    IN  IF is_zero(cents_value) THEN int_words
        ELSE IF is_zero(integral) THEN cent_words \o " " \o cents_suffix
        ELSE int_words \o " con " \o cent_words \o " " \o cents_suffix

RECURSIVE to_currency(_, _, _)
to_currency(self, num, currency) ==
    IF is_nan(num) THEN Err("CannotConvert")
    ELSE IF is_inf(num) THEN inf_to_currency(self, num, currency)
    ELSE IF frac_is_zero(num) THEN int_to_currency(self, num, currency)
    ELSE Try(to_currency(self, int(num), currency),
             LAMBDA int_words :
               Try(int_to_cardinal(self, cents_of(num)),
                   LAMBDA cent_cardinal :
                     Ok(currency_text(currency, int(num), cents_of(num), int_words,
                                      strip_uno_into_un(cent_cardinal)))))

\* es.rs:867-896: how deep the calls of to_currency nest for the amount num;
\* es.rs:884 is the only call to_currency makes of itself.
RECURSIVE to_currency_depth(_)
to_currency_depth(num) ==
    IF is_nan(num) \/ is_inf(num) \/ frac_is_zero(num) THEN 1
    ELSE 1 + to_currency_depth(int(num))

\* es.rs:731-748: the numerals to_ordinal hands to to_cardinal, one per
\* triplet (or triplet above) of 2 or more at an index above 0.
ordinal_cardinal_args(triplets) ==
    {FromTriplet(triplets[k]) : k \in {j \in 2..Len(triplets) : triplets[j] >= 2}}

-----------------------------------------------------------------------------
(* to_language, lang.rs:106-210: the preference tokens resolved into the    *)
(* configuration of a language.                                             *)

\* The value a token does not parse to.
NoMatch == "<no match>"

\* es.rs:919-929: NegativeFlavour::from_str.
NegativeFlavour_from_str(s) ==
    CASE s = "prepended" -> "Prepended"
      [] s = "appended" -> "Appended"
      [] s = "menos" -> "Prepended"
      [] s = "negativo" -> "Appended"
      [] s = "bajo cero" -> "BelowZero"
      [] OTHER -> NoMatch

\* es.rs:947-955: DecimalChar::from_str.
DecimalChar_from_str(s) ==
    CASE s = "punto" -> "Punto"
      [] s = "coma" -> "Coma"
      [] OTHER -> NoMatch

\* The FromStr of lang::uk::Declension, Gender and GrammaticalNumber (uk.rs).
uk_Declension_from_str(s) ==
    CASE s = "nom" -> "Nominative"
      [] s = "gen" -> "Genitive"
      [] s = "dat" -> "Dative"
      [] OTHER -> NoMatch

uk_Gender_from_str(s) ==
    CASE s = "m" -> "Masculine"
      [] s = "f" -> "Feminine"
      [] s = "n" -> "Neuter"
      [] OTHER -> NoMatch

uk_GrammaticalNumber_from_str(s) ==
    CASE s = "sg" -> "Singular"
      [] s = "pl" -> "Plural"
      [] OTHER -> NoMatch

\* iter().any(|v| tokens.contains(v))
any(preferences, tokens) == \E k \in DOMAIN preferences : preferences[k] \in tokens

\* The positions of the tokens that parse.
Parsed(preferences, from_str(_)) ==
    {k \in DOMAIN preferences : from_str(preferences[k]) # NoMatch}

\* iter().find_map(|v| from_str(v).ok()).unwrap_or_default(): the first token
\* that parses.
find_map(preferences, from_str(_), default) ==
    IF Parsed(preferences, from_str) = {} THEN default
    ELSE from_str(preferences[CHOOSE k \in Parsed(preferences, from_str) :
                                \A j \in Parsed(preferences, from_str) : k <= j])

\* iter().rev().find_map(|v| from_str(v).ok()).unwrap_or_default(): the last
\* token that parses.
rev_find_map(preferences, from_str(_), default) ==
    IF Parsed(preferences, from_str) = {} THEN default
    ELSE from_str(preferences[CHOOSE k \in Parsed(preferences, from_str) :
                                \A j \in Parsed(preferences, from_str) : k >= j])

\* lang.rs:108-121: the last of "oh" and "nil" (itself, or NoMatch).
oh_or_nil(s) == IF s \in {"oh", "nil"} THEN s ELSE NoMatch

\* lang.rs:108-121
to_language_English(preferences) ==
    LET last == rev_find_map(preferences, oh_or_nil, NoMatch)
    IN  [lang |-> "English", prefer_oh |-> last = "oh", prefer_nil |-> last = "nil"]

\* lang.rs:122-163: the three French arms differ in the region only.
to_language_French(preferences, region) ==
    [lang |-> "French",
     feminine |-> any(preferences, {"feminine", "feminin", "féminin", "f"}),
     reformed |-> any(preferences, {"reformed", "1990", "rectifié", "rectification"}),
     region |-> region]

\* lang.rs:164-190 with es.rs:191-237 (new, with_plural, with_veinte,
\* with_neg_flavour).
to_language_Spanish(preferences) ==
    [neg_flavour |-> find_map(preferences, NegativeFlavour_from_str, "Prepended"),
     prefer_veinte |-> any(preferences, {"veinte"}),
     decimal_char |-> find_map(preferences, DecimalChar_from_str, "Punto"),
     feminine |-> any(preferences, {"f", "femenino", "feminine"}),
     plural |-> any(preferences, {"plural"})]

\* lang.rs:191-208
to_language_Ukrainian(preferences) ==
    [lang |-> "Ukrainian",
     declension |-> rev_find_map(preferences, uk_Declension_from_str, "Nominative"),
     gender |-> rev_find_map(preferences, uk_Gender_from_str, "Masculine"),
     number |-> rev_find_map(preferences, uk_GrammaticalNumber_from_str, "Singular")]

\* lang.rs:106-210
to_language(lang, preferences) ==
    CASE lang = "English" -> to_language_English(preferences)
      [] lang = "French" -> to_language_French(preferences, "FR")
      [] lang = "French_BE" -> to_language_French(preferences, "BE")
      [] lang = "French_CH" -> to_language_French(preferences, "CH")
      [] lang = "Spanish" -> to_language_Spanish(preferences)
      [] lang = "Ukrainian" -> to_language_Ukrainian(preferences)

-----------------------------------------------------------------------------
(* The numerals and configurations the conversions are called with.        *)

\* The longest mantissa (in triplets) of the integers drawn.
MaxMant == 2
\* The most zero triplets below the mantissa of the integers drawn.
MaxShift == 2
\* How far around the largest convertible length the long integers reach.
Near == 2

\* The triplet values drawn: each branch of the sub-thousand rules.
GroupVals == {0, 1, 2, 11, 21, 100, 131}

\* The triplet values drawn for the mantissas longer than two triplets.
LowVals == {0, 1, 2}

\* The mantissas of the long integers.
BigMants == {<<1>>, <<2>>, <<21>>, <<2, 1>>}

\* The fractions drawn (decimal digits after the separator).
Fracs == {<<0, 1>>, <<2, 1>>, <<5>>, <<9, 9, 9>>, <<0, 0, 9>>}

\* The integer parts of the non-integral numerals drawn.
FracInts == {<<>>, <<1>>, <<21>>, <<2, 1>>}

Currencies == {"USD", "MXN"}

NegativeFlavours == {"Prepended", "Appended", "BelowZero"}
DecimalChars == {"Punto", "Coma"}

\* The number of triplets of the largest convertible integers.
MaxTriplets == 2 * (Len(MILLARES) - 1)

Zeros(n) == [k \in 1..n |-> 0]

\* Low-endian limbs with their highest limb nonzero, of 1..MaxMant limbs: up to
\* two triplets take every value drawn, longer mantissas the low values.
Mantissas ==
    UNION {{m \in [1..n -> IF n <= 2 THEN GroupVals ELSE LowVals] : m[n] # 0}
             : n \in 1..MaxMant}

\* Integers longer than the mantissas drawn: 1_000_000_001_000,
\* 1_001_100_001, 7 * 10^21 (a zero scale group under a thousand), 101, 31.
Examples == {<<0, 1, 0, 0, 1>>, <<1, 100, 1, 1>>, Zeros(7) \o <<7>>, <<101>>, <<31>>}

Limbs ==
    {<<>>}
    \cup Examples
    \cup {Zeros(z) \o m : m \in Mantissas, z \in 0..MaxShift}
    \cup {Zeros(n - Len(m)) \o m :
            m \in BigMants, n \in (MaxTriplets - Near)..(MaxTriplets + Near)}
    \cup {I128_MAX, [I128_MAX EXCEPT ![1] = 728]}

NaN == [kind |-> "nan", neg |-> FALSE, int |-> <<>>, frac |-> <<>>]
Infinity(neg) == [kind |-> "inf", neg |-> neg, int |-> <<>>, frac |-> <<>>]
Finite(neg, limbs, frac) == [kind |-> "fin", neg |-> neg, int |-> limbs, frac |-> frac]

Numerals ==
    {NaN, Infinity(FALSE), Infinity(TRUE)}
    \cup {Finite(FALSE, limbs, <<>>) : limbs \in Limbs}
    \cup {Finite(TRUE, limbs, <<>>) : limbs \in Limbs \ {<<>>}}
    \cup {Finite(neg, limbs, frac) :
            neg \in BOOLEAN, limbs \in FracInts, frac \in Fracs}

NoCall == [op |-> "none", num |-> NaN, currency |-> "none", lang |-> "none",
           preferences |-> <<>>]
NoResult == [tag |-> "None", val |-> ""]

\* The longest preference list handed to to_language.
MaxPrefs == 2

\* The preference tokens drawn: two or more per option that can conflict, the
\* flags, and one token shared by two languages ("f").
PrefTokens ==
    {"negativo", "bajo cero", "menos", "punto", "coma", "veinte", "f", "plural",
     "oh", "nil", "n", "pl", "sg", "gen", "dat", "reformed"}

Langs == {"English", "French", "French_BE", "French_CH", "Spanish", "Ukrainian"}

Preferences == UNION {[1..n -> PrefTokens] : n \in 0..MaxPrefs}

-----------------------------------------------------------------------------
(* The state machine: a Spanish value is built (Default, then the setters   *)
(* es.rs:196-243); then one conversion of the Language trait is called on   *)
(* it, and its argument and result are recorded.                            *)

Init ==
    /\ es = Default
    /\ call = NoCall
    /\ result = NoResult

Configure(field, value) ==
    /\ call.op = "none"
    /\ es' = [es EXCEPT ![field] = value]
    /\ UNCHANGED <<call, result>>

set_feminine == \E feminine \in BOOLEAN : Configure("feminine", feminine)
set_plural == \E plural \in BOOLEAN : Configure("plural", plural)
set_veinte == \E veinte \in BOOLEAN : Configure("prefer_veinte", veinte)
set_neg_flavour == \E flavour \in NegativeFlavours : Configure("neg_flavour", flavour)
set_decimal_char ==
    \E decimal_char \in DecimalChars : Configure("decimal_char", decimal_char)

Called(op, num, currency, r) ==
    /\ call.op = "none"
    /\ call' = [NoCall EXCEPT !.op = op, !.num = num, !.currency = currency]
    /\ result' = r
    /\ UNCHANGED es

ToCardinal ==
    \E num \in Numerals : Called("to_cardinal", num, "none", to_cardinal(es, num))
ToOrdinal ==
    \E num \in Numerals : Called("to_ordinal", num, "none", to_ordinal(es, num))
ToOrdinalNum ==
    \E num \in Numerals : Called("to_ordinal_num", num, "none", to_ordinal_num(es, num))
ToYear ==
    \E num \in Numerals : Called("to_year", num, "none", to_year(es, num))
ToCurrency ==
    \E num \in Numerals, currency \in Currencies :
        Called("to_currency", num, currency, to_currency(es, num, currency))

\* to_language is a free function: it is called on its own, before any
\* Spanish value is configured, and its result is the language it builds.
ToLanguage ==
    /\ call.op = "none" /\ es = Default
    /\ \E lang \in Langs, preferences \in Preferences :
          /\ call' = [NoCall EXCEPT !.op = "to_language", !.lang = lang,
                                    !.preferences = preferences]
          /\ result' = Ok(to_language(lang, preferences))
          /\ UNCHANGED es

Next ==
    \/ ToLanguage
    \/ set_feminine
    \/ set_plural
    \/ set_veinte
    \/ set_neg_flavour
    \/ set_decimal_char
    \/ ToCardinal
    \/ ToOrdinal
    \/ ToOrdinalNum
    \/ ToYear
    \/ ToCurrency

Spec == Init /\ [][Next]_vars

-----------------------------------------------------------------------------
(* Vocabulary of the properties.                                           *)

IsInteger(num) == num.kind = "fin" /\ num.frac = <<>>

\* The five conversions of the Language trait.
Conversions == {"to_cardinal", "to_ordinal", "to_ordinal_num", "to_year", "to_currency"}

\* The word w stands at position p of the text: between spaces or the ends.
WordAt(text, p, w) ==
    /\ SubSeq(text, p, p + Len(w) - 1) = w
    /\ (p = 1 \/ SubSeq(text, p - 1, p - 1) = " ")
    /\ (p + Len(w) - 1 = Len(text) \/ SubSeq(text, p + Len(w), p + Len(w)) = " ")

\* How many times the word w occurs in the text.
CountWord(text, w) ==
    Cardinality({p \in 1..(Len(text) - Len(w) + 1) : WordAt(text, p, w)})

HasWord(text, w) == \E p \in 1..(Len(text) - Len(w) + 1) : WordAt(text, p, w)

\* The triplet at index i (from 0) of a limb sequence, 0 beyond its length.
Group(groups, i) == IF i + 1 <= Len(groups) THEN groups[i + 1] ELSE 0

\* The indexes above 0 that carry a scale name of their own (million, billion, ...).
EvenIndexes(groups) == {i \in 2..(Len(groups) - 1) : i % 2 = 0}

-----------------------------------------------------------------------------
(* C1 as stated: for an integer numeral n, to_cardinal and to_ordinal fail  *)
(* with CannotConvert exactly when |n| has 43 or more triplets, and succeed *)
(* otherwise.  to_ordinal(-1) fails with NegativeOrdinal.                   *)
C1_OverflowForEveryInteger ==
    (call.op \in {"to_cardinal", "to_ordinal"} /\ IsInteger(call.num))
        => IF Len(call.num.int) >= 43
           THEN result = Err("CannotConvert")
           ELSE result.tag = "Ok"

(* C1 as amended: for an integer numeral n, to_cardinal, and to_ordinal    *)
(* when n >= 0, fail with CannotConvert (an error, no text) exactly when   *)
(* |n| has 43 or more triplets (|n| >= 10^126), and succeed otherwise.     *)
C1_OverflowExactlyPast42Triplets ==
    (/\ call.op \in {"to_cardinal", "to_ordinal"}
     /\ IsInteger(call.num)
     /\ (call.op = "to_ordinal" => ~call.num.neg))
        => IF Len(call.num.int) >= 43
           THEN result = Err("CannotConvert")
           ELSE result.tag = "Ok"

C1_Witness ==
    /\ call.op = "to_ordinal"
    /\ IsInteger(call.num) /\ ~call.num.neg
    /\ Len(call.num.int) = 43
    /\ result = Err("CannotConvert")

(* C2: no conversion aborts: each of the five conversions returns a text   *)
(* or a Num2Err; the unreachable!() branch of to_ordinal is not reached    *)
(* and no table is indexed outside its bounds.                             *)
C2_NoConversionPanics ==
    call.op \in Conversions => result.tag \in {"Ok", "Err"}

C2_Witness ==
    /\ call.op = "to_ordinal"
    /\ IsInteger(call.num) /\ ~call.num.neg
    /\ Len(call.num.int) > 4
    /\ \E i \in 3..(Len(call.num.int) - 2) :
          i % 2 = 1 /\ Group(call.num.int, i) # 0 /\ Group(call.num.int, i + 1) # 0
    /\ result.tag = "Ok"

(* C3: for every numeral x > 0 (integer, non-integral or +infinity) and    *)
(* each negative flavour, the text of to_cardinal(-x) contains the text of *)
(* to_cardinal(x) as a contiguous substring.                               *)
C3_NegativeContainsPositive ==
    (call.op = "to_cardinal" /\ call.num.kind # "nan" /\ call.num.neg)
        => /\ to_cardinal(es, abs(call.num)).tag = result.tag
           /\ result.tag = "Ok"
                => Contains(result.val, to_cardinal(es, abs(call.num)).val)

C3_Witness ==
    /\ call.op = "to_cardinal"
    /\ call.num.kind = "fin" /\ call.num.neg /\ call.num.frac # <<>>
    /\ Len(call.num.int) > 1
    /\ es.neg_flavour = "BelowZero"
    /\ result.tag = "Ok"

(* C4: in the cardinal text of an integer, every triplet that is exactly   *)
(* 100 is the word "cien", at every index, and every triplet in 101..199   *)
(* has the word "ciento"; "ciento" is not emitted for a triplet of 100.    *)
C4_ExactHundredIsCien ==
    (call.op = "to_cardinal" /\ IsInteger(call.num) /\ result.tag = "Ok")
        => /\ CountWord(result.val, "cien")
                = Cardinality({k \in DOMAIN call.num.int : call.num.int[k] = 100})
           /\ CountWord(result.val, "ciento")
                = Cardinality({k \in DOMAIN call.num.int :
                                 call.num.int[k] \in 101..199})

C4_Witness ==
    /\ call.op = "to_cardinal"
    /\ IsInteger(call.num)
    /\ \E k \in 2..Len(call.num.int) : call.num.int[k] = 100
    /\ \E k \in 1..Len(call.num.int) : call.num.int[k] \in 101..199
    /\ HasWord(result.val, "cien") /\ HasWord(result.val, "ciento")
    /\ result.tag = "Ok"

\* No triplet but an exact 1 contributes a word "un" or "uno": every triplet
\* with units digit 1 is 1 itself or has tens digit 1 ("once").
OnesAreExact(groups) ==
    \A k \in DOMAIN groups :
        groups[k] % 10 = 1 => (groups[k] = 1 \/ (groups[k] \div 10) % 10 = 1)

(* C5: in the cardinal text a triplet that is exactly 1 has no unit word   *)
(* at an odd index, the word "un" at an even index >= 2 and the word "uno" *)
(* at index 0: 1_000 -> "mil", 1_000_000 -> "un millón", 1_001_000 ->      *)
(* "un millón mil".                                                        *)
C5_GroupOfOne ==
    (/\ call.op = "to_cardinal" /\ IsInteger(call.num) /\ result.tag = "Ok"
     /\ OnesAreExact(call.num.int))
        => /\ CountWord(result.val, "un")
                = Cardinality({i \in EvenIndexes(call.num.int) :
                                 Group(call.num.int, i) = 1})
           /\ CountWord(result.val, "uno")
                = (IF Group(call.num.int, 0) = 1 THEN 1 ELSE 0)
           /\ (~call.num.neg /\ call.num.int = <<0, 1>>) => result.val = "mil"
           /\ (~call.num.neg /\ call.num.int = <<0, 0, 1>>) => result.val = "un millón"
           /\ (~call.num.neg /\ call.num.int = <<0, 1, 1>>)
                => result.val = "un millón mil"

C5_Witness ==
    /\ call.op = "to_cardinal"
    /\ ~call.num.neg /\ call.num.int = <<0, 1, 1>> /\ call.num.frac = <<>>
    /\ result = Ok("un millón mil")

\* The scale name emitted for the even index i is the plural one (or the
\* singular one), according to `plural`.
ScaleNameIs(text, i, plural) ==
    /\ HasWord(text, IF plural THEN MILLARES[i \div 2 + 2] ELSE MILLAR[i \div 2 + 2])
    /\ ~HasWord(text, IF plural THEN MILLAR[i \div 2 + 2] ELSE MILLARES[i \div 2 + 2])

\* A scale name is emitted for the index i.
ScaleEmitted(groups, i) == Group(groups, i) # 0 \/ Group(groups, i + 1) # 0

(* C6 as stated: the scale name emitted for a triplet at index > 0 is the  *)
(* plural one when the triplet is > 1 or any lower triplet is nonzero, and *)
(* the singular one otherwise.  1_000_001 is "un millón uno".              *)
C6_PluralWhenLowerGroupNonzero ==
    (call.op = "to_cardinal" /\ IsInteger(call.num) /\ result.tag = "Ok")
        => \A i \in EvenIndexes(call.num.int) :
              ScaleEmitted(call.num.int, i)
                => ScaleNameIs(result.val, i,
                               \/ Group(call.num.int, i) > 1
                               \/ \E j \in 0..(i - 1) : Group(call.num.int, j) # 0)

(* C6 as amended: the scale name emitted for a triplet at index > 0 is the *)
(* plural one when the triplet is > 1 or the next-higher triplet (index    *)
(* i + 1) is nonzero, and the singular one otherwise.  (At odd indexes the *)
(* two names are both "mil".)                                              *)
C6_PluralWhenHigherGroupNonzero ==
    (call.op = "to_cardinal" /\ IsInteger(call.num) /\ result.tag = "Ok")
        => \A i \in EvenIndexes(call.num.int) :
              ScaleEmitted(call.num.int, i)
                => ScaleNameIs(result.val, i,
                               \/ Group(call.num.int, i) > 1
                               \/ Group(call.num.int, i + 1) # 0)

C6_Witness ==
    /\ call.op = "to_cardinal" /\ IsInteger(call.num) /\ result.tag = "Ok"
    /\ Len(call.num.int) = 4
    /\ Group(call.num.int, 2) = 1 /\ Group(call.num.int, 3) # 0
    /\ HasWord(result.val, "millones")

(* C7: to_ordinal and to_ordinal_num validate in a fixed precedence: NaN   *)
(* -> CannotConvert; otherwise an infinity -> InfiniteOrdinal; otherwise   *)
(* any negative finite value, integral or not -> NegativeOrdinal;          *)
(* otherwise any non-integral value -> FloatingOrdinal.                    *)
C7_OrdinalValidationPrecedence ==
    call.op \in {"to_ordinal", "to_ordinal_num"}
        => /\ call.num.kind = "nan" => result = Err("CannotConvert")
           /\ call.num.kind = "inf" => result = Err("InfiniteOrdinal")
           /\ (call.num.kind = "fin" /\ call.num.neg)
                => result = Err("NegativeOrdinal")
           /\ (call.num.kind = "fin" /\ ~call.num.neg /\ call.num.frac # <<>>)
                => result = Err("FloatingOrdinal")

C7_Witness ==
    /\ call.op = "to_ordinal_num"
    /\ call.num.kind = "fin" /\ call.num.neg
    /\ call.num.int = <<>> /\ call.num.frac # <<>>
    /\ result = Err("NegativeOrdinal")

(* C8 as stated: to_ordinal and to_ordinal_num fail with FloatingOrdinal   *)
(* for any finite non-integral input, whatever its sign.  -0.01 fails with *)
(* NegativeOrdinal.                                                        *)
C8_FloatingOrdinalWhateverSign ==
    (/\ call.op \in {"to_ordinal", "to_ordinal_num"}
     /\ call.num.kind = "fin" /\ call.num.frac # <<>>)
        => result = Err("FloatingOrdinal")

(* C8 as amended: to_ordinal and to_ordinal_num fail with FloatingOrdinal  *)
(* for any finite non-integral input that is not negative; a negative      *)
(* non-integral input fails with NegativeOrdinal.                          *)
C8_FloatingOrdinalUnlessNegative ==
    (/\ call.op \in {"to_ordinal", "to_ordinal_num"}
     /\ call.num.kind = "fin" /\ call.num.frac # <<>>)
        => result = Err(IF call.num.neg THEN "NegativeOrdinal" ELSE "FloatingOrdinal")

C8_Witness ==
    /\ call.op = "to_ordinal"
    /\ call.num.kind = "fin" /\ ~call.num.neg /\ call.num.frac # <<>>
    /\ result = Err("FloatingOrdinal")

(* C9: a NaN numeral makes each of the five conversions fail with          *)
(* CannotConvert, under every configuration and currency.                  *)
C9_NaNCannotConvert ==
    (call.op \in Conversions /\ call.num.kind = "nan") => result = Err("CannotConvert")

C9_Witness ==
    /\ call.op = "to_currency" /\ call.currency = "MXN"
    /\ call.num.kind = "nan"
    /\ es.feminine /\ es.neg_flavour = "Appended"
    /\ result = Err("CannotConvert")

(* C10: for every nonzero integer x below overflow and every negative      *)
(* flavour, to_year(x) is to_cardinal(x) when x > 0, and for x < 0 the     *)
(* cardinal text of |x|, without the negative word, followed by " a. C.".  *)
C10_YearIsCardinal ==
    (/\ call.op = "to_year" /\ IsInteger(call.num)
     /\ call.num.int # <<>> /\ Len(call.num.int) <= 42)
        => /\ to_cardinal(es, abs(call.num)).tag = "Ok"
           /\ result = Ok(to_cardinal(es, abs(call.num)).val
                          \o (IF call.num.neg THEN " a. C." ELSE ""))

C10_Witness ==
    /\ call.op = "to_year"
    /\ IsInteger(call.num) /\ call.num.neg /\ Len(call.num.int) > 1
    /\ es.neg_flavour = "Appended"
    /\ result.tag = "Ok" /\ EndsWith(result.val, " a. C.")

(* C11: to_year validates before converting: NaN -> CannotConvert; an      *)
(* infinity -> InfiniteYear; any finite non-integral value, one with a     *)
(* zero integer part included -> FloatingYear; zero -> CannotConvert;      *)
(* every other finite integer passes (and converts unless it overflows).   *)
C11_YearValidation ==
    call.op = "to_year"
        => /\ call.num.kind = "nan" => result = Err("CannotConvert")
           /\ call.num.kind = "inf" => result = Err("InfiniteYear")
           /\ (call.num.kind = "fin" /\ call.num.frac # <<>>)
                => result = Err("FloatingYear")
           /\ (IsInteger(call.num) /\ call.num.int = <<>>)
                => result = Err("CannotConvert")
           /\ (IsInteger(call.num) /\ call.num.int # <<>>)
                => /\ year_precondition(call.num).tag = "Ok"
                   /\ IF Len(call.num.int) <= 42 THEN result.tag = "Ok"
                      ELSE result = Err("CannotConvert")

C11_Witness ==
    /\ call.op = "to_year"
    /\ call.num.kind = "fin" /\ call.num.int = <<>> /\ call.num.frac # <<>>
    /\ result = Err("FloatingYear")

\* floor(a * 100) mod 100 of a non-negative amount, from its decimal digits.
Subunit(num) ==
    10 * (IF Len(num.frac) >= 1 THEN num.frac[1] ELSE 0)
    + (IF Len(num.frac) >= 2 THEN num.frac[2] ELSE 0)

\* The text of the subunit phrase for the subunit value v in 1..99.
SubunitPhrase(v, currency) ==
    strip_uno_into_un(to_cardinal(es, FromTriplet(v)).val)
    \o " " \o (IF v = 1 THEN "centavo" ELSE "centavos")

(* C12: for every finite non-negative non-integral amount a, to_currency    *)
(* uses the integer part floor(a) and the subunit floor(a * 100) mod 100:   *)
(* the subunit is in 0..99 and is never rounded up (1.999 gives 99), and    *)
(* the integer part is never incremented by a carry from the subunit.       *)
C12_SubunitIsTruncated ==
    (/\ call.op = "to_currency"
     /\ call.num.kind = "fin" /\ ~call.num.neg /\ call.num.frac # <<>>)
        => LET whole == int(call.num)
               sub == Subunit(call.num)
               int_words == to_currency(es, whole, call.currency)
           IN  /\ sub \in 0..99
               /\ result.tag = "Ok" /\ int_words.tag = "Ok"
               /\ sub = 0 => result = int_words
               /\ sub # 0 => EndsWith(result.val, SubunitPhrase(sub, call.currency))
               /\ ~is_zero(whole) => StartsWith(result.val, int_words.val)
               /\ (call.num.int = <<1>> /\ call.num.frac = <<9, 9, 9>>)
                    => EndsWith(result.val, " con noventa y nueve centavos")

C12_Witness ==
    /\ call.op = "to_currency" /\ call.currency = "USD"
    /\ ~call.num.neg /\ call.num.int = <<1>> /\ call.num.frac = <<9, 9, 9>>
    /\ result = Ok("un dólar estadounidense con noventa y nueve centavos")

\* The text is an integer phrase, the connective and a subunit phrase.
HasBothPhrases(text, int_words) ==
    /\ StartsWith(text, int_words \o " con ")
    /\ EndsWith(text, " centavo") \/ EndsWith(text, " centavos")

(* C13 as stated: whenever the truncated subunit of a finite amount is     *)
(* nonzero, to_currency returns the integer phrase, the connective "con"   *)
(* and the subunit phrase, amounts with a zero integer part included.      *)
(* 0.5 gives "cincuenta centavos".                                         *)
C13_ConnectiveWheneverSubunit ==
    (call.op = "to_currency" /\ call.num.kind = "fin" /\ Subunit(call.num) # 0)
        => /\ result.tag = "Ok"
           /\ HasBothPhrases(result.val,
                             to_currency(es, int(call.num), call.currency).val)

(* C13 as amended: whenever the truncated subunit of a finite amount is    *)
(* nonzero, to_currency returns the integer phrase, the connective "con"   *)
(* and the subunit phrase when the integer part is not zero; when the      *)
(* integer part is zero it returns the subunit phrase alone, without an    *)
(* integer phrase and without the connective.                              *)
C13_ConnectiveUnlessZeroInteger ==
    (call.op = "to_currency" /\ call.num.kind = "fin" /\ Subunit(call.num) # 0)
        => /\ result.tag = "Ok"
           /\ call.num.int # <<>>
                => HasBothPhrases(result.val,
                                  to_currency(es, int(call.num), call.currency).val)
           /\ call.num.int = <<>>
                => /\ ~HasWord(result.val, "con")
                   /\ ~Contains(result.val, currencies(call.currency, TRUE))
                   /\ ~call.num.neg
                        => result.val = SubunitPhrase(Subunit(call.num), call.currency)

C13_Witness ==
    /\ call.op = "to_currency" /\ call.currency = "MXN"
    /\ ~call.num.neg /\ call.num.int = <<>> /\ call.num.frac = <<5>>
    /\ result = Ok("cincuenta centavos")

(* C14: in to_currency the currency unit name is singular exactly when the *)
(* integer part of the amount equals 1 (0, -1 and every other value take   *)
(* the plural), and the subunit name is singular exactly when the          *)
(* truncated subunit value equals 1.  (A name that is not part of the text *)
(* has neither form.)                                                      *)
C14_SingularExactlyForOne ==
    (call.op = "to_currency" /\ call.num.kind = "fin" /\ result.tag = "Ok")
        => LET sub == Subunit(call.num)
               unit_shown == call.num.int # <<>> \/ sub = 0
               unit_is_one == ~call.num.neg /\ call.num.int = <<1>>
               sub_is_one == ~call.num.neg /\ sub = 1
           IN  /\ HasWord(result.val, currencies(call.currency, FALSE))
                    <=> (unit_shown /\ unit_is_one)
               /\ HasWord(result.val, currencies(call.currency, TRUE))
                    <=> (unit_shown /\ ~unit_is_one)
               /\ HasWord(result.val, "centavo") <=> (sub # 0 /\ sub_is_one)
               /\ HasWord(result.val, "centavos") <=> (sub # 0 /\ ~sub_is_one)

C14_Witness ==
    /\ call.op = "to_currency" /\ call.currency = "MXN"
    /\ ~call.num.neg /\ call.num.int = <<1>> /\ call.num.frac = <<0, 1>>
    /\ result = Ok("un peso mexicano con un centavo")

\* The value v ends in a "one" that the cardinal text spells "uno": its units
\* digit is 1 and its tens digit is not 1.
EndsInUno(v) == v % 10 = 1 /\ (v \div 10) % 10 # 1

\* The contracted word that the value v (which EndsInUno) must end in.
ContractedWord(v) ==
    IF (v \div 10) % 10 = 2 /\ ~es.prefer_veinte THEN "veintiún" ELSE "un"

\* An uncontracted "uno" stands before the name in the text, directly or with
\* the negative word in between.
UnoBefore(text, name) ==
    \/ Contains(text, "uno " \o name)
    \/ Contains(text, "uno " \o as_str(es.neg_flavour) \o " " \o name)

\* The first word of the currency unit name, shared by its two forms.
UnitStem(currency) == IF currency = "USD" THEN "dólar" ELSE "peso"

(* C15 as stated: in to_currency, for every finite amount whose integer    *)
(* value (respectively subunit value) has units digit 1 and tens digit     *)
(* other than 1, the "uno" / "veintiuno" / "... y uno" of the lowest       *)
(* triplet is replaced by "un" / "veintiún" / "... y un" before the        *)
(* currency (respectively subunit) name, for positive amounts and for      *)
(* negative amounts under each negative flavour.  With the flavour         *)
(* Appended, -21 gives "veintiuno negativo dólares estadounidenses".       *)
C15_UnoContractedEveryStyle ==
    (call.op = "to_currency" /\ call.num.kind = "fin" /\ result.tag = "Ok")
        => /\ ~UnoBefore(result.val, UnitStem(call.currency))
           /\ ~UnoBefore(result.val, "centavo")
           /\ (call.num.int # <<>> /\ EndsInUno(Group(call.num.int, 0)))
                => HasWord(result.val, ContractedWord(Group(call.num.int, 0)))
           /\ EndsInUno(Subunit(call.num))
                => HasWord(result.val, ContractedWord(Subunit(call.num)))

(* C16 as stated: for an infinite amount, to_currency returns the infinity *)
(* phrase of the cardinal register ("infinito", or its negative form for   *)
(* the configured flavour), then "de", then the plural currency name, as   *)
(* separate words with a single space between them.  The code gives        *)
(* "infinitode dólares estadounidenses".                                   *)
C16_InfinityOfCurrencyIsSpaced ==
    (call.op = "to_currency" /\ call.num.kind = "inf")
        => /\ to_cardinal(es, call.num).tag = "Ok"
           /\ result = Ok(to_cardinal(es, call.num).val \o " de "
                          \o currencies(call.currency, TRUE))

(* C17 as stated: for a negative non-integral numeral, to_cardinal places  *)
(* the negative word after the last fractional digit word, for each of the *)
(* three flavours.  Under Prepended, -0.5 is "menos cero punto cinco".     *)
C17_NegativeWordTrailsFraction ==
    (/\ call.op = "to_cardinal"
     /\ call.num.kind = "fin" /\ call.num.neg /\ call.num.frac # <<>>)
        => /\ result.tag = "Ok"
           /\ EndsWith(result.val, " " \o as_str(es.neg_flavour))

(* C17 as amended: for a negative non-integral numeral, to_cardinal places *)
(* the negative word after the last fractional digit word under the        *)
(* flavours Appended and BelowZero, and before the words of the integer    *)
(* part under Prepended; the rest is the text of the absolute value.       *)
C17_NegativeWordFollowsFlavour ==
    (/\ call.op = "to_cardinal"
     /\ call.num.kind = "fin" /\ call.num.neg /\ call.num.frac # <<>>)
        => /\ to_cardinal(es, abs(call.num)).tag = "Ok"
           /\ result =
                Ok(IF es.neg_flavour = "Prepended"
                   THEN "menos " \o to_cardinal(es, abs(call.num)).val
                   ELSE to_cardinal(es, abs(call.num)).val \o " "
                        \o (IF es.neg_flavour = "Appended" THEN "negativo"
                            ELSE "bajo cero"))

C17_Witness ==
    /\ call.op = "to_cardinal"
    /\ call.num.neg /\ call.num.int = <<21>> /\ call.num.frac = <<0, 1>>
    /\ es.neg_flavour = "Prepended" /\ es.decimal_char = "Coma"
    /\ result = Ok("menos veintiuno coma cero uno")

\* The cardinal text that precedes an ordinal scale stem for the triplet value
\* v: nothing for 1, fused for 2..9, followed by one space from 10 on.
CardinalBefore(v) ==
    IF v <= 1 THEN ""
    ELSE to_cardinal(es, FromTriplet(v)).val \o (IF v >= 10 THEN " " ELSE "")

\* The ordinal scale stem of the index i with the gender/number suffix.
ScaleOrdinal(i) == ordinal_MILLARES[milliard_index_of(i) + 1] \o gender(es)

\* The indexes above 0 whose triplet has a word of its own in the ordinal text.
OwnWordIndexes(groups) == {i \in 1..(Len(groups) - 1) : i = 1 \/ i % 2 = 0}

\* The "<cardinal>mil" of the triplet above the even index i, fused before its word.
ThousandBefore(groups, i) ==
    IF i > 1 /\ i % 2 = 0 /\ Group(groups, i + 1) # 0
    THEN CardinalBefore(Group(groups, i + 1)) \o "mil"
    ELSE ""

(* C18: in to_ordinal the word of a nonzero triplet at an index i >= 1 is  *)
(* the ordinal scale stem with the gender/number suffix, preceded by the   *)
(* triplet's own cardinal text: nothing for the value 1 ("milésimo"), the  *)
(* cardinal fused without a space for 2..9 ("dosmilésimo"), the cardinal   *)
(* and exactly one space from 10 on ("once millonésima").                  *)
C18_OrdinalTripletWord ==
    (/\ call.op = "to_ordinal" /\ IsInteger(call.num) /\ ~call.num.neg
     /\ result.tag = "Ok")
        => /\ \A i \in OwnWordIndexes(call.num.int) :
                 Group(call.num.int, i) # 0
                   => HasWord(result.val,
                              ThousandBefore(call.num.int, i)
                              \o CardinalBefore(Group(call.num.int, i))
                              \o ScaleOrdinal(i))
           /\ call.num.int = <<0, 1>> => result.val = "milésim" \o gender(es)
           /\ call.num.int = <<0, 2>> => result.val = "dosmilésim" \o gender(es)
           /\ call.num.int = <<0, 0, 1>> => result.val = "millonésim" \o gender(es)
           /\ call.num.int = <<0, 0, 11>>
                => result.val = "once millonésim" \o gender(es)

C18_Witness ==
    /\ call.op = "to_ordinal"
    /\ ~call.num.neg /\ call.num.int = <<0, 0, 11>> /\ call.num.frac = <<>>
    /\ es.feminine /\ ~es.plural
    /\ result = Ok("once millonésima")

\* How many times the text w occurs in the text, inside words included.
CountText(text, w) ==
    Cardinality({p \in 1..(Len(text) - Len(w) + 1) : SubSeq(text, p, p + Len(w) - 1) = w})

\* The odd indexes from 3 on: the thousands triplets of the higher scales.
HighThousands(groups) == {i \in 3..(Len(groups) - 1) : i % 2 = 1}

(* C19: in to_ordinal a nonzero triplet at an odd index i >= 3 has no word *)
(* of its own: it is the "<cardinal>mil" prefix (no cardinal for 1, fused  *)
(* for 2..9, with a space from 10 on) of the word of the even triplet      *)
(* i - 1, which is emitted even when that triplet is zero (10^9 ->         *)
(* "milmillonésim@"); the triplet at index 1 is never fused onto the       *)
(* triplet at index 0.                                                     *)
C19_HighThousandsAreFused ==
    (/\ call.op = "to_ordinal" /\ IsInteger(call.num) /\ ~call.num.neg
     /\ result.tag = "Ok")
        => /\ \A i \in HighThousands(call.num.int) :
                 Group(call.num.int, i) # 0
                   => HasWord(result.val,
                              CardinalBefore(Group(call.num.int, i)) \o "mil"
                              \o CardinalBefore(Group(call.num.int, i - 1))
                              \o ScaleOrdinal(i - 1))
           /\ CountText(result.val, "milésim")
                = (IF Group(call.num.int, 1) # 0 THEN 1 ELSE 0)
           /\ (Group(call.num.int, 1) # 0 /\ Group(call.num.int, 0) # 0)
                => EndsWith(result.val,
                            ScaleOrdinal(1) \o " "
                            \o to_ordinal(es, FromTriplet(Group(call.num.int, 0))).val)
           /\ call.num.int = <<0, 0, 0, 1>>
                => result.val = "milmillonésim" \o gender(es)
           /\ call.num.int = <<100, 2>>
                => result.val = "dosmilésim" \o gender(es)
                                \o " centésim" \o gender(es)

C19_Witness ==
    /\ call.op = "to_ordinal"
    /\ ~call.num.neg /\ call.num.int = <<0, 0, 0, 1>> /\ call.num.frac = <<>>
    /\ es.feminine /\ ~es.plural
    /\ result = Ok("milmillonésima")

\* The value of a decimal digit character.
DigitValue(c) == CHOOSE d \in 0..9 : SubSeq("0123456789", d + 1, d + 1) = c

IsDigitString(str) ==
    /\ Len(str) > 0
    /\ \A p \in 1..Len(str) :
          \E d \in 0..9 : SubSeq("0123456789", d + 1, d + 1) = SubSeq(str, p, p)

\* The value of a string of at most three decimal digits.
RECURSIVE ShortValue(_)
ShortValue(str) ==
    IF Len(str) = 0 THEN 0
    ELSE 10 * ShortValue(SubSeq(str, 1, Len(str) - 1))
         + DigitValue(SubSeq(str, Len(str), Len(str)))

\* The low-endian base-1000 limbs that a decimal digit string denotes.
RECURSIVE DecimalLimbs(_)
DecimalLimbs(str) ==
    IF Len(str) <= 3 THEN <<ShortValue(str)>>
    ELSE <<ShortValue(SubSeq(str, Len(str) - 2, Len(str)))>>
         \o DecimalLimbs(SubSeq(str, 1, Len(str) - 3))

\* The text is the decimal digit string of the limbs followed by the marker.
IsOrdinalNumeral(text, limbs, marker) ==
    LET digits == SubSeq(text, 1, Len(text) - 1)
    IN  /\ Len(text) >= 2
        /\ SubSeq(text, Len(text), Len(text)) = marker
        /\ IsDigitString(digits)
        /\ IF limbs = <<>> THEN digits = "0"
           ELSE SubSeq(digits, 1, 1) # "0" /\ DecimalLimbs(digits) = limbs

(* C20 as stated: for every non-negative finite integer n, whatever its    *)
(* size, to_ordinal_num succeeds and returns the decimal digit string of n *)
(* followed by "ª" when feminine is set and "º" otherwise, whatever the    *)
(* plural preference.  2^127 fails with CannotConvert.                     *)
C20_OrdinalNumeralForEverySize ==
    (call.op = "to_ordinal_num" /\ IsInteger(call.num) /\ ~call.num.neg)
        => /\ result.tag = "Ok"
           /\ IsOrdinalNumeral(result.val, call.num.int,
                               IF es.feminine THEN "ª" ELSE "º")
           /\ result = to_ordinal_num([es EXCEPT !.plural = ~es.plural], call.num)

(* C20 as amended: for every non-negative finite integer n up to           *)
(* i128::MAX = 2^127 - 1, to_ordinal_num succeeds and returns the decimal  *)
(* digit string of n followed by "ª" when feminine is set and "º"          *)
(* otherwise, whatever the plural preference; from 2^127 on it fails with  *)
(* CannotConvert.                                                          *)
C20_OrdinalNumeralWithinI128 ==
    (call.op = "to_ordinal_num" /\ IsInteger(call.num) /\ ~call.num.neg)
        => /\ IF \/ Len(call.num.int) < Len(I128_MAX)
                 \/ Len(call.num.int) = Len(I128_MAX)
                      /\ LimbsLeq(call.num.int, I128_MAX)
              THEN /\ result.tag = "Ok"
                   /\ IsOrdinalNumeral(result.val, call.num.int,
                                       IF es.feminine THEN "ª" ELSE "º")
              ELSE result = Err("CannotConvert")
           /\ result = to_ordinal_num([es EXCEPT !.plural = ~es.plural], call.num)

C20_Witness ==
    /\ call.op = "to_ordinal_num"
    /\ ~call.num.neg /\ call.num.frac = <<>>
    /\ call.num.int = [I128_MAX EXCEPT ![1] = 728]
    /\ es.plural
    /\ result = Err("CannotConvert")


-----------------------------------------------------------------------------
(* C21 .. C30                                                               *)

\* The tokens that select the negative decoration and the decimal word of
\* Spanish, the reading of English zero, and the three options of Ukrainian.
NegFlavourTokens == {"prepended", "appended", "menos", "negativo", "bajo cero"}
DecimalCharTokens == {"punto", "coma"}
ZeroTokens == {"oh", "nil"}
DeclensionTokens == {"nom", "gen", "dat"}
GenderTokens == {"m", "f", "n"}
NumberTokens == {"sg", "pl"}

\* The last token of the list that belongs to the option.
LastMatching(preferences, tokens) ==
    preferences[CHOOSE k \in DOMAIN preferences :
                    /\ preferences[k] \in tokens
                    /\ \A j \in DOMAIN preferences : preferences[j] \in tokens => j <= k]

\* C21: in to_language, for every language, an option for which the
\* preference list holds matching tokens is set by the last of them: the
\* negative decoration and the decimal word of Spanish, the reading of zero
\* of English, the declension, gender and number of Ukrainian.
C21_LastMatchingTokenWins ==
    call.op = "to_language" =>
        LET p == call.preferences
            c == result.val
        IN  /\ (call.lang = "Spanish" /\ any(p, NegFlavourTokens)) =>
                   c.neg_flavour = NegativeFlavour_from_str(LastMatching(p, NegFlavourTokens))
            /\ (call.lang = "Spanish" /\ any(p, DecimalCharTokens)) =>
                   c.decimal_char = DecimalChar_from_str(LastMatching(p, DecimalCharTokens))
            /\ (call.lang = "English" /\ any(p, ZeroTokens)) =>
                   /\ c.prefer_oh = (LastMatching(p, ZeroTokens) = "oh")
                   /\ c.prefer_nil = (LastMatching(p, ZeroTokens) = "nil")
            /\ (call.lang = "Ukrainian" /\ any(p, DeclensionTokens)) =>
                   c.declension = uk_Declension_from_str(LastMatching(p, DeclensionTokens))
            /\ (call.lang = "Ukrainian" /\ any(p, GenderTokens)) =>
                   c.gender = uk_Gender_from_str(LastMatching(p, GenderTokens))
            /\ (call.lang = "Ukrainian" /\ any(p, NumberTokens)) =>
                   c.number = uk_GrammaticalNumber_from_str(LastMatching(p, NumberTokens))

\* The singular (or plural) scale name of the even index i.
SingularScale(i) == MILLAR[i \div 2 + 2]
PluralScale(i) == MILLARES[i \div 2 + 2]

(* C22: in the cardinal text the singular scale name of an even index      *)
(* i >= 2 occurs exactly when group i is 1 and group i + 1 is zero; in     *)
(* every other case in which a scale name is emitted for i it is the       *)
(* plural one.  1_000_000_001_000 -> "un billón mil", 1_001_100_001 ->     *)
(* "mil un millones cien mil uno".                                         *)
C22_SingularScaleForLoneOne ==
    (call.op = "to_cardinal" /\ IsInteger(call.num) /\ result.tag = "Ok")
        => /\ \A i \in EvenIndexes(call.num.int) :
                 /\ HasWord(result.val, SingularScale(i))
                      <=> (Group(call.num.int, i) = 1 /\ Group(call.num.int, i + 1) = 0)
                 /\ HasWord(result.val, PluralScale(i))
                      <=> (\/ Group(call.num.int, i) > 1
                           \/ Group(call.num.int, i + 1) # 0)
           /\ (~call.num.neg /\ call.num.int = <<0, 1, 0, 0, 1>>)
                => result.val = "un billón mil"
           /\ (~call.num.neg /\ call.num.int = <<1, 100, 1, 1>>)
                => result.val = "mil un millones cien mil uno"

C22_Witness ==
    /\ call.op = "to_cardinal" /\ ~call.num.neg /\ call.num.frac = <<>>
    /\ call.num.int = <<0, 1, 0, 0, 1>>
    /\ result = Ok("un billón mil")

\* The even indexes that have a scale name in the table.
ScaleIndexes == {i \in 2..(MaxTriplets - 2) : i % 2 = 0}

\* The odd indexes of the groups.
OddIndexes(groups) == {i \in 1..(Len(groups) - 1) : i % 2 = 1}

(* C23: in the cardinal text a scale word stands for the index i >= 1      *)
(* exactly when group i is nonzero, or i is even and group i + 1 is        *)
(* nonzero: "mil" occurs once per nonzero odd group and for nothing else   *)
(* (so never for index 0 nor for a zero odd group), and the scale name of  *)
(* an even index occurs once if group i or group i + 1 is nonzero, and not *)
(* at all otherwise.  7 * 10^21 -> "siete mil trillones".                  *)
C23_ScaleWordEmission ==
    (call.op = "to_cardinal" /\ IsInteger(call.num) /\ result.tag = "Ok")
        => /\ CountWord(result.val, "mil")
                = Cardinality({i \in OddIndexes(call.num.int) :
                                 Group(call.num.int, i) # 0})
           /\ \A i \in ScaleIndexes :
                 CountWord(result.val, SingularScale(i))
                     + CountWord(result.val, PluralScale(i))
                   = (IF Group(call.num.int, i) # 0 \/ Group(call.num.int, i + 1) # 0
                      THEN 1 ELSE 0)
           /\ (~call.num.neg /\ call.num.int = Zeros(7) \o <<7>>)
                => result.val = "siete mil trillones"

C23_Witness ==
    /\ call.op = "to_cardinal" /\ ~call.num.neg /\ call.num.frac = <<>>
    /\ call.num.int = Zeros(7) \o <<7>>
    /\ result = Ok("siete mil trillones")

\* The indexes of the groups whose units digit is 1 and tens digit is `tens`.
OnesWithTens(groups, tens) ==
    {i \in 0..(Len(groups) - 1) :
        Group(groups, i) % 10 = 1 /\ (Group(groups, i) \div 10) % 10 \in tens}

WellSpaced(text) ==
    /\ ~StartsWith(text, " ")
    /\ ~EndsWith(text, " ")
    /\ ~Contains(text, "  ")

(* C25: the text of every successful cardinal conversion (of an integer or *)
(* of a non-integral numeral) and of every successful ordinal conversion   *)
(* has no leading space, no trailing space and no two consecutive spaces.  *)
C25_NoStraySpaces ==
    (call.op \in {"to_cardinal", "to_ordinal"} /\ result.tag = "Ok")
        => WellSpaced(result.val)

\* A cardinal whose assembly drops the unit word of a thousands group and
\* two empty groups, and an ordinal that omits the cardinal prefix of 1.
C25_Witness ==
    /\ call.num.kind = "fin" /\ call.num.frac = <<>>
    /\ \/ /\ call.op = "to_cardinal"
          /\ call.num.int = <<0, 1, 0, 0, 1>>
       \/ /\ call.op = "to_ordinal"
          /\ call.num.int = <<1, 1>>
    /\ result.tag = "Ok" /\ WellSpaced(result.val)

(* C26: every conversion returns, with bounded nesting: to_currency calls  *)
(* itself only for a finite non-integral amount, on its integral part,     *)
(* which is integral, so that the calls nest two deep at most; to_ordinal  *)
(* hands to to_cardinal only non-negative integers below 1000, which       *)
(* to_cardinal converts by int_to_cardinal; and the groups a loop runs     *)
(* over are the base-1000 digits of the integer, one iteration for each.   *)
C26_BoundedNesting ==
    call.op \in Conversions
        => /\ result.tag \in {"Ok", "Err"}
           /\ call.op = "to_currency"
                => /\ frac_is_zero(call.num) \/ call.num.kind # "fin"
                        \/ frac_is_zero(int(call.num))
                   /\ to_currency_depth(call.num)
                        = (IF call.num.kind = "fin" /\ call.num.frac # <<>>
                           THEN 2 ELSE 1)
           /\ (call.op = "to_ordinal" /\ result.tag = "Ok")
                => \A arg \in ordinal_cardinal_args(split_thousands(int(call.num))) :
                      /\ IsInteger(arg) /\ ~arg.neg
                      /\ Len(arg.int) = 1 /\ arg.int[1] \in 2..999
                      /\ to_cardinal(es, arg) = int_to_cardinal(es, arg)
           /\ (IsInteger(call.num) /\ result.tag = "Ok")
                => /\ Len(split_thousands(call.num)) = Len(call.num.int)
                   /\ \A k \in DOMAIN call.num.int :
                         split_thousands(call.num)[k] \in 0..999

C26_Witness ==
    /\ call.op = "to_currency"
    /\ call.num.kind = "fin" /\ call.num.int = <<21>> /\ call.num.frac = <<2, 1>>
    /\ to_currency_depth(call.num) = 2
    /\ result.tag = "Ok"

\* The non-negative integers drawn.
NonNegativeIntegers == {Finite(FALSE, limbs, <<>>) : limbs \in Limbs}

(* C27: under a fixed configuration to_ordinal is injective on the         *)
(* non-negative integers it accepts: no other integer has the ordinal text *)
(* returned for the integer converted.                                     *)
C27_OrdinalInjective ==
    (call.op = "to_ordinal" /\ IsInteger(call.num) /\ result.tag = "Ok")
        => \A other \in NonNegativeIntegers \ {call.num} :
              to_ordinal(es, other) # result

\* The configuration that agrees with self in the one preference
\* int_to_cardinal reads for a non-negative integer, and is the default in
\* the others.
CardinalPreferences(self) == [Default EXCEPT !.prefer_veinte = self.prefer_veinte]

(* C28: under a fixed configuration int_to_cardinal is injective on the    *)
(* non-negative integers below overflow.  The cardinal of a non-negative   *)
(* integer depends on the configuration through prefer_veinte only, and    *)
(* under either value of it no other integer has the cardinal text of the  *)
(* integer converted.                                                      *)
C28_CardinalInjective ==
    (/\ call.op = "to_cardinal" /\ IsInteger(call.num) /\ ~call.num.neg
     /\ result.tag = "Ok")
        => /\ result = int_to_cardinal(CardinalPreferences(es), call.num)
           /\ es = CardinalPreferences(es)
                => \A other \in NonNegativeIntegers \ {call.num} :
                      int_to_cardinal(es, other) # result

\* The integers whose cardinal texts differ only by the scale name of a
\* zero group: 1_000_000_000 -> "mil millones", 1_001_000_000 -> "mil un
\* millones".
C28_Witness ==
    /\ call.op = "to_cardinal" /\ ~call.num.neg /\ call.num.frac = <<>>
    /\ call.num.int = <<0, 0, 0, 1>>
    /\ result = Ok("mil millones")
    /\ int_to_cardinal(es, Finite(FALSE, <<0, 0, 1, 1>>, <<>>)) = Ok("mil un millones")

(* C29: to_ordinal(0) succeeds with the empty text, and zero is the only   *)
(* input whose ordinal text is empty: every other successful ordinal       *)
(* conversion returns at least one word.                                   *)
C29_OnlyZeroHasEmptyOrdinal ==
    call.op = "to_ordinal"
        => /\ is_zero(call.num) => result = Ok("")
           /\ (result.tag = "Ok" /\ ~is_zero(call.num))
                => /\ result.val # ""
                   /\ call.num.int # <<>>

C29_Witness ==
    /\ call.op = "to_ordinal" /\ is_zero(call.num)
    /\ result = Ok("")

(* C30: for a negative non-integral amount with a nonzero integer part and *)
(* a nonzero subunit, the text of to_currency contains the word of the     *)
(* negative decoration exactly once, under each of the three styles.       *)
C30_NegativeWordOnce ==
    (/\ call.op = "to_currency" /\ call.num.kind = "fin" /\ call.num.neg
     /\ call.num.int # <<>> /\ call.num.frac # <<>> /\ Subunit(call.num) # 0
     /\ result.tag = "Ok")
        => CountText(result.val, as_str(es.neg_flavour)) = 1
=============================================================================
